---- MODULE Spec2Model ----
(***************************************************************************)
(* A model of app.py: the storybook pipeline of one Flask process.         *)
(*   create()  = parse the form, obtain a story, illustrate each page,     *)
(*               render, persist, return the PDF.                          *)
(* Remote services, the file system and the renderer are the environment:  *)
(* each of their outcomes is a nondeterministic choice of the action that  *)
(* calls them.                                                             *)
(***************************************************************************)
EXTENDS Integers, Sequences, FiniteSets, TLC

VARIABLES
    OPENAI_API_KEY,     \* app.py:12  "" or a key
    STABILITY_API_KEY,  \* app.py:13
    IMAGE_PROVIDER,     \* app.py:14
    hashSecret,         \* the interpreter's per-process string-hash secret
    restarts,           \* how many times the server process was restarted
    form,               \* request.form of the POST /create being served
    pc,                 \* position of create(): "request", "illustrate", "assemble", "done"
    child_name, age, theme, tone, pages,     \* locals of create()
    story,              \* local of create(): the value generate_story_with_openai returned
    idx,                \* position of the for loop over story.get("pages", [])
    page_images,        \* local of create()
    pdf_bytes,          \* local of create()
    calls,              \* log: one entry per generate_image call, in call order
    textLog,            \* log: the text provider's answer to each request sent to it
    seedLog,            \* log: every (name, page, seed) handed to generate_image, kept across restarts
    files,              \* the files written under OUTPUT_DIR
    nextUid,            \* uuid.uuid4() modelled as a fresh number
    flashes,            \* messages passed to flash()
    response,           \* what create() answered: "none", "document", "redirect", "error500"
    raisedAt            \* source line of the exception that escaped create(), 0 if none

config == <<OPENAI_API_KEY, STABILITY_API_KEY, IMAGE_PROVIDER>>
locals == <<child_name, age, theme, tone, pages, story, idx, page_images, pdf_bytes>>
logs   == <<calls, textLog, seedLog>>
vars   == <<config, hashSecret, restarts, form, pc, locals, logs, files, nextUid, flashes, response, raisedAt>>

----------------------------------------------------------------------------
(* Bounds *)
MaxPages == 3           \* longest story a remote provider returns; largest page count typed in the form
StubMaxPages == 20      \* largest page count of the offline-stub specification
MaxRestarts == 1        \* process restarts in the restart specification

None == "None"          \* Python's None
Absent == "<absent>"    \* a form field that was not submitted

----------------------------------------------------------------------------
(* Values *)
DefaultPages == 6       \* data.get("pages", 6)
LimbBase == 65536       \* 2**32 = LimbBase * LimbBase: a seed is two 16-bit limbs <<hi, lo>>

Names == {"Mina", "A/B"}
PagesRaw == {"0", "-1", "abc"} \cup {ToString(n) : n \in 1..MaxPages}
EmptyForm == [name |-> Absent, age |-> Absent, theme |-> Absent, tone |-> Absent, pages |-> Absent]
Forms ==
    [name : Names \cup {Absent}, age : {"6"}, theme : {"ocean"}, tone : {"calm"}, pages : PagesRaw]
    \cup {EmptyForm, [EmptyForm EXCEPT !.name = "Mina", !.pages = "1"]}
StubForms ==
    [name : Names \cup {Absent}, age : {"6", Absent}, theme : {"ocean"}, tone : {"calm"},
     pages : {ToString(n) : n \in 1..StubMaxPages}]

\* request.form.get(key, default)
FormGet(f, key, default) == IF f[key] = Absent THEN default ELSE f[key]

\* int(s) for a string s: the integer it spells, or ValueError
ParseRange == (0 - StubMaxPages - 1)..(StubMaxPages + 1)
PyInt(s) ==
    IF \E n \in ParseRange : ToString(n) = s
    THEN [ok |-> TRUE, value |-> CHOOSE n \in ParseRange : ToString(n) = s]
    ELSE [ok |-> FALSE, value |-> 0]

\* int(data.get("pages", 6)): the default is already an int
PagesOfForm(f) ==
    IF f.pages = Absent THEN [ok |-> TRUE, value |-> DefaultPages] ELSE PyInt(f.pages)

\* str.title() on the themes of the model
Title(s) ==
    CASE s = "ocean" -> "Ocean"
      [] s = "jungle" -> "Jungle"
      [] OTHER -> s

(* JSON values as json.loads returns them.  A story-shaped value records its
   Python type, the keys it has and the type of its title; a page-shaped
   value records its type and keys. *)
PageKeys == {"page", "page_text", "image_description"}
StoryKeys == {"title", "synopsis", "pages"}
PageObj(i, text, desc) ==
    [type |-> "object", keys |-> PageKeys, page |-> i, page_text |-> text,
     image_description |-> desc]
StoryObj(title, synopsis, ps) ==
    [type |-> "object", keys |-> StoryKeys, titleType |-> "string", title |-> title,
     synopsis |-> synopsis, pages |-> ps]

\* dict.get on the two shapes (AttributeError when the value is no dict: see the callers)
StoryPages(v) == IF "pages" \in v.keys THEN v.pages ELSE << >>
PageGet(p, key, default) == IF key \in p.keys THEN p[key] ELSE default

\* the offline stub of generate_story_with_openai
StubPages_OffByOne(name, a, th, n) ==
    [i \in 1..(n - 1) |->
        PageObj(i,
                "Page " \o ToString(i) \o ": " \o name \o " does something fun in the " \o th \o ".",
                name \o " (age " \o a \o ") in a " \o th \o " scene, playful composition.")]

StubPages(name, a, th, n) ==
    [i \in 1..n |->
        PageObj(i,
                "Page " \o ToString(i) \o ": " \o name \o " does something fun in the " \o th \o ".",
                name \o " (age " \o a \o ") in a " \o th \o " scene, playful composition.")]
StubStory(name, a, th, to, n) ==
    StoryObj(name \o " and the " \o Title(th) \o " Adventure",
             "A short " \o to \o " tale about " \o name \o ".",
             StubPages(name, a, th, n))

----------------------------------------------------------------------------
(* The text provider: what it may answer, and generate_story_with_openai *)

NoStory == [type |-> "none", keys |-> {}, titleType |-> "none", title |-> "", synopsis |-> "",
            pages |-> << >>]
NoPage == [type |-> "string", keys |-> {}, page |-> 0, page_text |-> "", image_description |-> ""]

\* a conforming answer with n pages
WellFormed(n) ==
    StoryObj("The Reef", "A tale.", [i \in 1..n |-> PageObj(i, "Some text.", "A scene.")])
\* n pages, the last one a bare string instead of an object
BadPageAt(n) ==
    StoryObj("The Reef", "A tale.",
             [i \in 1..n |-> IF i = n THEN NoPage ELSE PageObj(i, "Some text.", "A scene.")])
\* n pages that carry only page_text
SparsePages(n) ==
    StoryObj("The Reef", "A tale.",
             [i \in 1..n |-> [PageObj(0, "Some text.", "") EXCEPT !.keys = {"page_text"}]])
\* an object without the pages key; an object whose title is a number; a JSON array
NoPagesKey == [WellFormed(0) EXCEPT !.keys = {"title", "synopsis"}]
TitleNumber == [WellFormed(1) EXCEPT !.titleType = "number", !.title = "7"]
JsonArray == [NoStory EXCEPT !.type = "array"]

JsonValues ==
    {WellFormed(n) : n \in 0..MaxPages}
    \cup {BadPageAt(n) : n \in 1..MaxPages}
    \cup {SparsePages(n) : n \in 1..MaxPages}
    \cup {NoPagesKey, TitleNumber, JsonArray}

\* the schema {title, synopsis, pages:[{page, page_text, image_description}]}
ConformsToSchema(v) ==
    /\ v.type = "object"
    /\ v.keys = StoryKeys
    /\ v.titleType = "string"
    /\ \A i \in 1..Len(v.pages) : v.pages[i].type = "object" /\ v.pages[i].keys = PageKeys

\* the content string of the provider's message, with what json.loads makes of it
RawProse == "Once upon a time, Mina swam."
Texts ==
    {[raw |-> RawProse, json |-> FALSE, value |-> NoStory]}
    \cup {[raw |-> "{json}", json |-> TRUE, value |-> v] : v \in JsonValues}
JsonLoads(text) == [ok |-> text.json, value |-> text.value]

\* status: "timeout" (requests.post raises), "http_error" (raise_for_status raises),
\* "bad_body" (r.json() or the choices[0].message.content lookup raises), "ok"
TextReplies ==
    {[status |-> st, text |-> [raw |-> "", json |-> FALSE, value |-> NoStory]] :
        st \in {"timeout", "http_error", "bad_body"}}
    \cup {[status |-> "ok", text |-> t] : t \in Texts}

\* generate_story_with_openai(name, age, theme, tone, pages) with the provider answering `reply`
generate_story_Swallow(name, a, th, to, n, key, reply) ==
    IF key = ""
    THEN [raised |-> FALSE, exc |-> "", value |-> StubStory(name, a, th, to, n), remote |-> FALSE]
    ELSE IF reply.status # "ok"
    THEN [raised |-> TRUE, exc |-> reply.status, value |-> NoStory, remote |-> TRUE]
    ELSE [raised |-> FALSE, exc |-> "",
          value |-> IF JsonLoads(reply.text).ok THEN JsonLoads(reply.text).value ELSE WellFormed(0),
          remote |-> TRUE]

generate_story_with_openai(name, a, th, to, n, key, reply) ==
    IF key = ""
    THEN [raised |-> FALSE, exc |-> "", value |-> StubStory(name, a, th, to, n), remote |-> FALSE]
    ELSE IF reply.status # "ok"
    THEN [raised |-> TRUE, exc |-> reply.status, value |-> NoStory, remote |-> TRUE]
    ELSE IF JsonLoads(reply.text).ok
    THEN [raised |-> FALSE, exc |-> "", value |-> JsonLoads(reply.text).value, remote |-> TRUE]
    ELSE [raised |-> TRUE,
          exc |-> "LLM returned unparsable JSON. Raw text:\n" \o reply.text.raw,
          value |-> NoStory, remote |-> TRUE]

----------------------------------------------------------------------------
(* The image providers and generate_image *)

Providers == {"openai", "stability", "dalle"}     \* "dalle": an identifier the code does not know
Keys == {"", "sk-test"}

\* what the remote image service may do with one request:
\*   "ok" (a payload of image bytes), "empty" (a payload that decodes to b""),
\*   "http_error" (raise_for_status raises), "timeout" (requests.post raises),
\*   "bad_payload" (r.json(), the lookup or b64decode raises)
ImageReplies == {"ok", "empty", "http_error", "timeout", "bad_payload"}
FailingReplies == {"http_error", "timeout", "bad_payload"}
PngBytes == "PNG-bytes"
EmptyBytes == ""

\* generate_image_openai / generate_image_stability with the service answering `reply`
generate_image_openai_NoKeyCheck(key, reply) ==
    IF reply \in FailingReplies
    THEN [raised |-> TRUE, bytes |-> None, remote |-> TRUE]
    ELSE [raised |-> FALSE, bytes |-> IF reply = "ok" THEN PngBytes ELSE EmptyBytes, remote |-> TRUE]

generate_image_openai(key, reply) ==
    IF key = ""
    THEN [raised |-> FALSE, bytes |-> None, remote |-> FALSE]
    ELSE IF reply \in FailingReplies
    THEN [raised |-> TRUE, bytes |-> None, remote |-> TRUE]
    ELSE [raised |-> FALSE, bytes |-> IF reply = "ok" THEN PngBytes ELSE EmptyBytes, remote |-> TRUE]

generate_image_stability(key, reply) ==
    IF key = ""
    THEN [raised |-> FALSE, bytes |-> None, remote |-> FALSE]
    ELSE IF reply \in FailingReplies
    THEN [raised |-> TRUE, bytes |-> None, remote |-> TRUE]
    ELSE [raised |-> FALSE, bytes |-> IF reply = "ok" THEN PngBytes ELSE EmptyBytes, remote |-> TRUE]

\* Python truthiness of None / bytes
Truthy_NotNone(b) == b # None

Truthy(b) == b # None /\ b # EmptyBytes

ImagePath(uid) == "output/img_" \o ToString(uid) \o ".png"

\* provider = provider_hint or IMAGE_PROVIDER
ChooseProvider(hint, configured) == IF hint = None \/ hint = "" THEN configured ELSE hint

\* generate_image(prompt, provider_hint, seed): `reply` is the remote service's answer,
\* writeOk whether open()/write() of out_path succeeds, uid the fresh uuid.
\* result: raised, value (the path or None), wrote (the file written, None if none),
\* remote (a request was sent to the service)
generate_image_NoWrite(hint, configured, okey, skey, reply, writeOk, uid) ==
    LET provider == ChooseProvider(hint, configured)
        got == IF provider = "openai" THEN generate_image_openai(okey, reply)
               ELSE IF provider = "stability" THEN generate_image_stability(skey, reply)
               ELSE [raised |-> FALSE, bytes |-> None, remote |-> FALSE]
    IN  [raised |-> got.raised, value |-> IF got.raised THEN None ELSE ImagePath(uid),
         wrote |-> None, remote |-> got.remote]

generate_image(hint, configured, okey, skey, reply, writeOk, uid) ==
    LET provider == ChooseProvider(hint, configured)
        got == IF provider = "openai" THEN generate_image_openai(okey, reply)
               ELSE IF provider = "stability" THEN generate_image_stability(skey, reply)
               ELSE [raised |-> FALSE, bytes |-> None, remote |-> FALSE]
    IN  IF got.raised
        THEN [raised |-> TRUE, value |-> None, wrote |-> None, remote |-> got.remote]
        ELSE IF Truthy(got.bytes)
        THEN IF writeOk
             THEN [raised |-> FALSE, value |-> ImagePath(uid), wrote |-> ImagePath(uid),
                   remote |-> got.remote]
             ELSE [raised |-> TRUE, value |-> None, wrote |-> None, remote |-> got.remote]
        ELSE [raised |-> FALSE, value |-> None, wrote |-> None, remote |-> got.remote]

----------------------------------------------------------------------------
(* hash((child_name, page)) % (2**32).  A 64-bit hash is four 16-bit limbs,
   most significant first.  The string hash of the interpreter is keyed by a
   secret drawn when the process starts; the keyed function is abstracted to
   a mixing of the secret with the string's length, which keeps what matters
   here: the value depends on the secret, and hash("") is 0. *)
Secrets == {11, 23}

PyHashStr(secret, s) ==
    IF Len(s) = 0 THEN <<0, 0, 0, 0>>
    ELSE [k \in 1..4 |-> (Len(s) * 40503 + secret * 2654 * k) % LimbBase]

\* hash(n) of a small int is n itself, except hash(-1) = -2; two's complement limbs
PyHashInt(n) ==
    LET h == IF n = -1 THEN -2 ELSE n
    IN  IF h >= 0 THEN <<0, 0, 0, h % LimbBase>>
        ELSE <<LimbBase - 1, LimbBase - 1, LimbBase - 1, (LimbBase + h) % LimbBase>>

\* hash of a 2-tuple: a fixed mixing of the two lane hashes
PyHashTuple(h1, h2) == [k \in 1..4 |-> (h1[k] * 31 + h2[k] * 17 + 3527) % LimbBase]

\* x % (2**32): the two low limbs
Mod2Pow32(h) == <<h[3], h[4]>>

\* the seed argument of line 152
Seed(secret, name, pageNo) == Mod2Pow32(PyHashTuple(PyHashStr(secret, name), PyHashInt(pageNo)))

----------------------------------------------------------------------------
(* The process and its one handler that does work, create() *)

FreshLocals ==
    /\ child_name = "" /\ age = "" /\ theme = "" /\ tone = "" /\ pages = 0
    /\ story = NoStory /\ idx = 0 /\ page_images = << >> /\ pdf_bytes = None

InitWith(keys, providers, forms) ==
    /\ OPENAI_API_KEY \in keys
    /\ STABILITY_API_KEY \in keys
    /\ IMAGE_PROVIDER \in providers
    /\ hashSecret \in Secrets
    /\ restarts = 0
    /\ form \in forms
    /\ pc = "request"
    /\ FreshLocals
    /\ calls = << >> /\ textLog = << >> /\ seedLog = {}
    /\ files = {} /\ nextUid = 1 /\ flashes = << >>
    /\ response = "none" /\ raisedAt = 0

Init == InitWith(Keys, Providers, Forms)

\* an exception leaves create(): Flask answers 500
Crash(line) == pc' = "done" /\ response' = "error500" /\ raisedAt' = line

\* lines 128-145: read the form, obtain the story, enter the loop.  Without a key no
\* request is sent, so the provider's answer is not drawn (a fixed one is passed, unread).
CreateBegin ==
    /\ pc = "request"
    /\ child_name' = FormGet(form, "name", "Child")
    /\ age' = FormGet(form, "age", "5")
    /\ theme' = FormGet(form, "theme", "jungle")
    /\ tone' = FormGet(form, "tone", "playful")
    /\ UNCHANGED <<config, hashSecret, restarts, form, page_images, pdf_bytes, calls, seedLog,
                   files, nextUid>>
    /\ IF ~PagesOfForm(form).ok
       THEN /\ Crash(133)
            /\ idx' = 0
            /\ UNCHANGED <<pages, story, textLog, flashes>>
       ELSE /\ pages' = PagesOfForm(form).value
            /\ \E reply \in IF OPENAI_API_KEY = "" THEN {CHOOSE r \in TextReplies : r.status = "timeout"}
                            ELSE TextReplies :
                 LET r == generate_story_with_openai(child_name', age', theme', tone', pages',
                                                     OPENAI_API_KEY, reply)
                 IN  /\ textLog' = IF r.remote THEN Append(textLog, reply) ELSE textLog
                     /\ IF r.raised
                        THEN /\ flashes' = Append(flashes, "Error generating story: " \o r.exc)
                             /\ pc' = "done" /\ response' = "redirect" /\ raisedAt' = 0
                             /\ idx' = 0
                             /\ UNCHANGED story
                        ELSE /\ story' = r.value
                             /\ UNCHANGED flashes
                             /\ IF r.value.type # "object"
                                THEN Crash(145) /\ idx' = 0
                                ELSE /\ pc' = "illustrate" /\ idx' = 1
                                     /\ UNCHANGED <<response, raisedAt>>

\* lines 151-154: try: img_path = generate_image(...) / except Exception: img_path = None
CatchImage_Narrow(r) == [escaped |-> r.raised, img_path |-> r.value]

CatchImage(r) == [escaped |-> FALSE, img_path |-> IF r.raised THEN None ELSE r.value]

\* what the log keeps of the service's answer: "none" when no request was sent, "failed"
\* for the three failing answers, else "ok" or "empty"
LoggedReply(remote, reply) ==
    IF ~remote THEN "none" ELSE IF reply \in FailingReplies THEN "failed" ELSE reply

\* lines 145-156: one iteration of the loop over the story's pages
IllustratePage ==
    /\ pc = "illustrate"
    /\ idx <= Len(StoryPages(story))
    /\ UNCHANGED <<config, hashSecret, restarts, form, child_name, age, theme, tone, pages,
                   story, pdf_bytes, textLog, flashes>>
    /\ LET p == StoryPages(story)[idx]
       IN  IF p.type # "object"
           THEN /\ Crash(147)
                /\ UNCHANGED <<idx, page_images, calls, seedLog, files, nextUid>>
           ELSE \E reply \in ImageReplies, writeOk \in BOOLEAN :
                  LET pageNo == PageGet(p, "page", 0)
                      seed == Seed(hashSecret, child_name, pageNo)
                      r == generate_image(None, IMAGE_PROVIDER, OPENAI_API_KEY,
                                          STABILITY_API_KEY, reply, writeOk, nextUid)
                      c == CatchImage(r)
                  IN  /\ calls' = Append(calls,
                                     [index |-> idx, page |-> pageNo, seed |-> seed,
                                      remote |-> r.remote, raised |-> r.raised,
                                      reply |-> LoggedReply(r.remote, reply),
                                      writable |-> (r.remote /\ reply = "ok") => writeOk])
                      /\ seedLog' = seedLog \cup {[name |-> child_name, page |-> pageNo,
                                                   seed |-> seed]}
                      /\ files' = IF r.wrote = None THEN files ELSE files \cup {r.wrote}
                      /\ nextUid' = nextUid + 1
                      /\ IF c.escaped
                         THEN Crash(152) /\ UNCHANGED <<idx, page_images>>
                         ELSE /\ page_images' = Append(page_images, c.img_path)
                              /\ idx' = idx + 1
                              /\ UNCHANGED <<pc, response, raisedAt>>

\* os.path.join(OUTPUT_DIR, f"{child_name}_storybook_....pdf") names a directory that does
\* not exist when the name holds a path separator
HasPathSep(name) == name = "A/B"
HtmlPath(uid) == "output/story_" \o ToString(uid) \o ".html"
PdfPath(name, uid) == "output/" \o name \o "_storybook_" \o ToString(uid) \o ".pdf"
PdfBytes == "%PDF"

\* lines 158-173: render, persist, answer.  tplOk: render_template succeeds; htmlOk: the
\* HTML file can be written; renderOk: write_pdf succeeds; pdfOk: the PDF file can be written
Assemble ==
    /\ pc = "illustrate"
    /\ idx = Len(StoryPages(story)) + 1
    /\ UNCHANGED <<config, hashSecret, restarts, form, child_name, age, theme, tone, pages,
                   story, idx, page_images, calls, textLog, seedLog, flashes>>
    /\ \E tplOk \in BOOLEAN, htmlOk \in BOOLEAN, renderOk \in BOOLEAN, pdfOk \in BOOLEAN :
         IF ~tplOk
         THEN Crash(158) /\ UNCHANGED <<pdf_bytes, files, nextUid>>
         ELSE IF ~htmlOk
         THEN Crash(161) /\ nextUid' = nextUid + 1 /\ UNCHANGED <<pdf_bytes, files>>
         ELSE IF ~renderOk
         THEN /\ Crash(164) /\ nextUid' = nextUid + 1
              /\ files' = files \cup {HtmlPath(nextUid)}
              /\ UNCHANGED pdf_bytes
         ELSE /\ pdf_bytes' = PdfBytes
              /\ nextUid' = nextUid + 2
              /\ IF ~pdfOk \/ HasPathSep(child_name)
                 THEN /\ Crash(167)
                      /\ files' = files \cup {HtmlPath(nextUid)}
                 ELSE /\ files' = files \cup {HtmlPath(nextUid), PdfPath(child_name, nextUid + 1)}
                      /\ pc' = "done" /\ response' = "document" /\ raisedAt' = 0

Next == CreateBegin \/ IllustratePage \/ Assemble

Spec == Init /\ [][Next]_vars

----------------------------------------------------------------------------
(* The offline stub over the page counts 1..StubMaxPages: no credential is
   configured, so every job runs without a remote service. *)
InitStub == InitWith({""}, Providers, StubForms)
SpecStub == InitStub /\ [][Next]_vars

(* The server process is restarted and the same form is submitted again.
   The new interpreter draws a new hash secret; the files on disk stay. *)
Restart ==
    /\ pc = "done"
    /\ restarts < MaxRestarts
    /\ restarts' = restarts + 1
    /\ hashSecret' \in Secrets
    /\ pc' = "request"
    /\ child_name' = "" /\ age' = "" /\ theme' = "" /\ tone' = "" /\ pages' = 0
    /\ story' = NoStory /\ idx' = 0 /\ page_images' = << >> /\ pdf_bytes' = None
    /\ calls' = << >> /\ textLog' = << >> /\ flashes' = << >>
    /\ response' = "none" /\ raisedAt' = 0
    /\ UNCHANGED <<config, form, seedLog, files, nextUid>>

InitRestart == InitWith({""}, {"openai"}, Forms)
NextRestart == Next \/ Restart
SpecRestart == InitRestart /\ [][NextRestart]_vars

----------------------------------------------------------------------------
(* Properties *)

NPages == Len(StoryPages(story))
AllPagesObjects ==
    /\ story.type = "object"
    /\ \A i \in 1..NPages : StoryPages(story)[i].type = "object"
LoopEntered == idx >= 1
LoopDone == LoopEntered /\ idx = NPages + 1
\* per-page isolation: no exception left the loop, one call per page so far, in page
\* order, one entry per call, and the job ends only after the last page
LoopIsolated ==
    /\ raisedAt \notin {147, 152}
    /\ (pc = "done" => idx = NPages + 1)
    /\ Len(calls) = idx - 1
    /\ Len(page_images) = idx - 1
    /\ \A i \in 1..Len(calls) :
         calls[i].index = i /\ calls[i].page = PageGet(StoryPages(story)[i], "page", 0)

\* C1 as stated: for a Story of N >= 1 pages and the set F of pages whose image call fails
\* (HTTP error, timeout, undecodable payload), the loop makes one generate_image call per
\* page in page order, never aborts, and leaves N entries of which exactly those of F are None.
C1_Original ==
    (LoopEntered /\ AllPagesObjects /\ NPages >= 1) =>
        /\ LoopIsolated
        /\ \A i \in 1..Len(page_images) : (page_images[i] = None) <=> (calls[i].reply = "failed")

\* C1 as amended: the same, except that the entries of F are None and an entry is a path
\* exactly when the service answered with non-empty bytes and the image file was written.
C1_Amended ==
    (LoopEntered /\ AllPagesObjects /\ NPages >= 1) =>
        /\ LoopIsolated
        /\ \A i \in 1..Len(page_images) :
             /\ calls[i].reply = "failed" => page_images[i] = None
             /\ (page_images[i] # None) <=> (calls[i].reply = "ok" /\ calls[i].writable)

C1_Witness ==
    /\ LoopDone /\ AllPagesObjects /\ NPages >= 3
    /\ calls[2].reply = "failed" /\ page_images[2] = None
    /\ page_images[1] # None /\ page_images[3] # None

TextFailed == textLog # << >> /\ (textLog[1].status # "ok" \/ ~textLog[1].text.json)
UnparsableNotice(raw) == "Error generating story: LLM returned unparsable JSON. Raw text:\n" \o raw

\* C2: when generate_story_with_openai fails, create() flashes a notice (with the raw text
\* when the answer was unparsable), calls no image generation, writes no file and returns
\* no document; a document is returned only when story generation succeeded.
C2_StoryFailureAborts ==
    /\ TextFailed =>
         /\ pc = "done" /\ response = "redirect"
         /\ Len(flashes) = 1
         /\ textLog[1].status = "ok" => flashes[1] = UnparsableNotice(textLog[1].text.raw)
         /\ calls = << >> /\ page_images = << >> /\ files = {} /\ pdf_bytes = None
    /\ response = "document" => (~TextFailed /\ story.type = "object")

C2_Witness ==
    /\ response = "redirect" /\ textLog # << >>
    /\ textLog[1].status = "ok" /\ ~textLog[1].text.json
    /\ flashes[1] = UnparsableNotice(RawProse)

\* C3: every answer of the text provider that deviates from the schema makes
\* generate_story_with_openai fail with the malformed-response error, so that create()
\* flashes it and no story value is returned.
C3_DeviationRejected ==
    (/\ textLog # << >> /\ textLog[1].status = "ok"
     /\ ~(textLog[1].text.json /\ ConformsToSchema(textLog[1].text.value)))
    => (response = "redirect" /\ story.type = "none")

\* C4: with no text credential the stub sends no request and returns exactly pageCount
\* pages, numbered 1..pageCount in order, each with non-empty page_text and
\* image_description, for every pageCount in 1..StubMaxPages.
C4_StubPageCount ==
    (OPENAI_API_KEY = "" /\ pc # "request" /\ pages \in 1..StubMaxPages) =>
        /\ textLog = << >>
        /\ story.type = "object" /\ story.keys = StoryKeys
        /\ Len(story.pages) = pages
        /\ \A i \in 1..Len(story.pages) :
             /\ story.pages[i].type = "object" /\ story.pages[i].keys = PageKeys
             /\ story.pages[i].page = i
             /\ story.pages[i].page_text # ""
             /\ story.pages[i].image_description # ""

C4_Witness ==
    /\ OPENAI_API_KEY = "" /\ pc = "done" /\ response = "document"
    /\ pages = StubMaxPages /\ Len(story.pages) = StubMaxPages

SelectedUnconfigured ==
    \/ IMAGE_PROVIDER = "openai" /\ OPENAI_API_KEY = ""
    \/ IMAGE_PROVIDER = "stability" /\ STABILITY_API_KEY = ""
NoCredentials == OPENAI_API_KEY = "" /\ STABILITY_API_KEY = ""
AssemblyLines == {158, 161, 164, 167}

C6_PersistenceNotFatal == (pc = "done" /\ pdf_bytes # None) => response = "document"

\* C7: the seed is a function of (subjectName, pageNumber) alone, also across processes,
\* and lies in 0..2^32-1.
C7_SeedDeterministic ==
    /\ \A a \in seedLog : a.seed[1] \in 0..(LimbBase - 1) /\ a.seed[2] \in 0..(LimbBase - 1)
    /\ \A a, b \in seedLog : (a.name = b.name /\ a.page = b.page) => a.seed = b.seed

\* C8: story generation is always reached, with a pageCount >= 1, whatever the form holds;
\* missing name, age, theme and tone are defaulted.
C8_PageCountPositive ==
    pc # "request" =>
        /\ raisedAt # 133
        /\ pages >= 1
        /\ child_name # Absent /\ age # Absent /\ theme # Absent /\ tone # Absent

\* C9: a story without pages is a hard failure: no document is assembled and returned for it.
C9_NoPagesIsFailure ==
    (story.type = "object" /\ StoryPages(story) = << >>) =>
        (response # "document" /\ pdf_bytes = None)

\* C10: a path is returned only for a file that was written, from non-empty bytes the
\* service sent; no other image file is written; an unrecognized IMAGE_PROVIDER sends
\* nothing, raises nothing and leaves every entry None.
C10_PathOnlyAfterWrite ==
    /\ \A i \in 1..Len(page_images) :
         /\ page_images[i] # None => (page_images[i] \in files /\ calls[i].reply = "ok")
         /\ calls[i].reply \in {"none", "empty"} => page_images[i] = None
    /\ \A u \in 1..nextUid :
         ImagePath(u) \in files => \E i \in 1..Len(page_images) : page_images[i] = ImagePath(u)
    /\ IMAGE_PROVIDER \notin {"openai", "stability"} =>
         /\ raisedAt # 152
         /\ \A i \in 1..Len(calls) : ~calls[i].remote /\ ~calls[i].raised
         /\ \A i \in 1..Len(page_images) : page_images[i] = None

C10_Witness ==
    /\ IMAGE_PROVIDER = "dalle" /\ OPENAI_API_KEY # "" /\ STABILITY_API_KEY # ""
    /\ response = "document"
    /\ Len(page_images) >= 2
    /\ \A i \in 1..Len(page_images) : page_images[i] = None

====
